---------------------------- MODULE Spec2Model ----------------------------
(***************************************************************************)
(* A model of the puzzle core of tango_game_bot: the grid store            *)
(* (GridSystem), the rule validator (RuleValidator) and the session        *)
(* controller (GameManager).                                               *)
(*                                                                         *)
(* Every method is an operator that takes the controller object (a record  *)
(* of its fields) and returns the object after the call; every action      *)
(* applies one method to the current object.  JavaScript values are        *)
(* encoded as follows:                                                     *)
(*   null cell value            the string "null"                          *)
(*   a seed string              the sequence of its UTF-16 code units      *)
(*   a 32-bit integer           a pair <<hi, lo>> of 16-bit limbs          *)
(*                              (TLC's own integers are 32-bit signed)     *)
(*   timer.startTime            <<>> for null, <<t>> for the instant t     *)
(*   gridSystem.constraints     the Map as the sequence of its values in   *)
(*                              insertion order, each carrying its key     *)
(***************************************************************************)
EXTENDS Integers, Sequences, FiniteSets, TLC

(***************************************************************************)
(* 32-bit arithmetic on limb pairs.                                        *)
(***************************************************************************)
Limb == 65536

\* LCG multiplier 1664525 = MulHi * 2^16 + MulLo, increment
\* 1013904223 = IncHi * 2^16 + IncLo (GameManager.js:46).
MulHi == 25
MulLo == 26125
IncHi == 15470
IncLo == 62303

Zero32 == <<0, 0>>

\* x + n (mod 2^32) for a small non-negative n
AddSmall32(x, n) ==
    LET lo == x[2] + n
    IN  <<(x[1] + (lo \div Limb)) % Limb, lo % Limb>>

\* x - y (mod 2^32)
Sub32(x, y) ==
    LET lo == x[2] - y[2]
        borrow == IF lo < 0 THEN 1 ELSE 0
    IN  <<(x[1] - y[1] - borrow + 2 * Limb) % Limb, (lo + Limb) % Limb>>

\* hash << 5: the left shift of a 32-bit integer, bits shifted out are lost
ShiftLeft5(x) ==
    LET lo == x[2] * 32
    IN  <<(x[1] * 32 + (lo \div Limb)) % Limb, lo % Limb>>

\* the sign of a 32-bit integer read as signed (two's complement)
IsNegative32(x) == x[1] >= 32768

\* Math.abs of a signed 32-bit integer; abs(-2^31) = 2^31 is representable
Abs32(x) == IF IsNegative32(x) THEN Sub32(Zero32, x) ELSE x

(***************************************************************************)
(* The seeded generator (GameManager.seedRandom).                          *)
(***************************************************************************)
\* one round of the string hash: hash = ((hash << 5) - hash) + char, then
\* "hash & hash" brings it back to 32 bits
HashStep(hash, char) == AddSmall32(Sub32(ShiftLeft5(hash), hash), char)

RECURSIVE HashFrom(_, _, _)
HashFrom(seed, i, hash) ==
    IF i > Len(seed) THEN hash
    ELSE HashFrom(seed, i + 1, HashStep(hash, seed[i]))

HashSeed(seed) == HashFrom(seed, 1, Zero32)

\* seedValue = (seedValue * 1664525 + 1013904223) % 2^32
LcgNext(s) ==
    LET p  == s[2] * MulLo + IncLo
        hi == s[1] * MulLo + s[2] * MulHi + IncHi + (p \div Limb)
    IN  <<hi % Limb, p % Limb>>

\* Math.floor(v * n) for the value v = s / 2^32 the generator returns
FloorMul(s, n) == (s[1] * n + ((s[2] * n) \div Limb)) \div Limb

\* v > 0.5 for the value v = s / 2^32 the generator returns
AboveHalf(s) == s[1] > 32768 \/ (s[1] = 32768 /\ s[2] > 0)

\* 0 <= v < 1 for the value v = s / 2^32
InUnitInterval(s) == s[1] \in 0..(Limb - 1) /\ s[2] \in 0..(Limb - 1)


(***************************************************************************)
(* The grid store (GridSystem).                                            *)
(***************************************************************************)
Null == "null"
Symbols == {"orange", "moon"}
Values == {Null} \cup Symbols

Positions(size) == (0..(size - 1)) \X (0..(size - 1))

\* GridSystem.initializeGrid: every cell {value: null, immutable: false}
\* (the per-cell "constraints: {}" object is never read or written again)
initializeGrid(size) ==
    [p \in Positions(size) |-> [value |-> Null, immutable |-> FALSE]]

\* new GridSystem(size)
GridSystem(size) ==
    [size |-> size, grid |-> initializeGrid(size), constraints |-> <<>>]

isValidPosition(gs, row, col) ==
    row >= 0 /\ row < gs.size /\ col >= 0 /\ col < gs.size

\* GridSystem.setCell: [obj |-> the store after the call, ret |-> its result]
\* setCell, were it to write without looking at the immutable flag
setCellIgnoresImmutable(gs, row, col, value) ==
    IF isValidPosition(gs, row, col)
    THEN [obj |-> [gs EXCEPT !.grid[<<row, col>>].value = value], ret |-> TRUE]
    ELSE [obj |-> gs, ret |-> FALSE]

setCell(gs, row, col, value) ==
    IF isValidPosition(gs, row, col) /\ ~gs.grid[<<row, col>>].immutable
    THEN [obj |-> [gs EXCEPT !.grid[<<row, col>>].value = value], ret |-> TRUE]
    ELSE [obj |-> gs, ret |-> FALSE]

\* GridSystem.getCell(row, col)?.value: "undefined" when getCell returns null
getCellValue(gs, row, col) ==
    IF isValidPosition(gs, row, col) THEN gs.grid[<<row, col>>].value
    ELSE "undefined"

\* setImmutable, were it to write the value without setting the flag
setImmutableValueOnly(gs, row, col, value) ==
    IF isValidPosition(gs, row, col)
    THEN [obj |-> [gs EXCEPT !.grid[<<row, col>>].value = value], ret |-> TRUE]
    ELSE [obj |-> gs, ret |-> FALSE]

setImmutable(gs, row, col, value) ==
    IF isValidPosition(gs, row, col)
    THEN [obj |-> [gs EXCEPT !.grid[<<row, col>>] =
                        [value |-> value, immutable |-> TRUE]],
          ret |-> TRUE]
    ELSE [obj |-> gs, ret |-> FALSE]

\* the key `${row1},${col1}-${row2},${col2}` of a constraint
constraintId(row1, col1, row2, col2) == <<row1, col1, row2, col2>>

\* Map.prototype.set: an existing key keeps its place and gets the new
\* value, a new key is appended
MapSet(map, key, value) ==
    IF \E i \in 1..Len(map) : map[i].key = key
    THEN [i \in 1..Len(map) |->
            IF map[i].key = key THEN [key |-> key, value |-> value] ELSE map[i]]
    ELSE Append(map, [key |-> key, value |-> value])

addConstraint(gs, row1, col1, row2, col2, type) ==
    IF isValidPosition(gs, row1, col1) /\ isValidPosition(gs, row2, col2)
    THEN [obj |-> [gs EXCEPT !.constraints =
                        MapSet(gs.constraints,
                               constraintId(row1, col1, row2, col2),
                               [cell1 |-> [row |-> row1, col |-> col1],
                                cell2 |-> [row |-> row2, col |-> col2],
                                type |-> type])],
          ret |-> TRUE]
    ELSE [obj |-> gs, ret |-> FALSE]

\* GridSystem.getConstraints: the values of the Map in insertion order
getConstraints(gs) == [i \in 1..Len(gs.constraints) |-> gs.constraints[i].value]

\* GridSystem.clear: every cell that is not immutable becomes null
\* clear, were it to empty the immutable cells too
clearEveryCell(gs) ==
    [gs EXCEPT !.grid = [pos \in DOMAIN gs.grid |-> [gs.grid[pos] EXCEPT !.value = Null]]]

clear(gs) ==
    [gs EXCEPT !.grid = [p \in DOMAIN gs.grid |->
        IF gs.grid[p].immutable THEN gs.grid[p]
        ELSE [gs.grid[p] EXCEPT !.value = Null]]]

\* GridSystem.serialize: the size, the grid array itself (the object, not a
\* copy of it) and the entries of the constraints Map as a new array
gridSerialize(gs) ==
    [size |-> gs.size, grid |-> gs.grid,
     constraints |-> [i \in 1..Len(gs.constraints) |->
                        <<gs.constraints[i].key, gs.constraints[i].value>>]]

\* new Map(entries): the entries set one after the other
RECURSIVE NewMap(_, _)
NewMap(entries, n) ==
    IF n = 0 THEN <<>>
    ELSE MapSet(NewMap(entries, n - 1), entries[n][1], entries[n][2])

\* GridSystem.deserialize
gridDeserialize(gs, data) ==
    [size |-> data.size, grid |-> data.grid,
     constraints |-> NewMap(data.constraints, Len(data.constraints))]

(***************************************************************************)
(* Puzzle generation (GameManager.seedRandom, initializePuzzle).           *)
(***************************************************************************)
\* seedRandom: the empty seed returns the number 0 before seedValue is
\* assigned, any other seed assigns seedValue = |hash| and returns the
\* generator closure.  callable tells which of the two was returned.
\* seedRandom, were it to leave the generator state where it is
seedRandomContinues(g, seed) ==
    [obj |-> g, callable |-> Len(seed) # 0]

seedRandom(g, seed) ==
    IF Len(seed) = 0
    THEN [obj |-> g, callable |-> FALSE]
    ELSE [obj |-> [g EXCEPT !.seedValue = Abs32(HashSeed(seed))],
          callable |-> TRUE]

\* prefilledCount: floor(size^2 * 0.4), floor(size^2 * 0.25) or
\* floor(size^2 * 0.15); the doubles' floors equal these integer quotients
PrefilledCount(size, difficulty) ==
    IF difficulty = "easy" THEN (size * size * 2) \div 5
    ELSE IF difficulty = "medium" THEN (size * size) \div 4
    ELSE (size * size * 3) \div 20

\* constraintCount = floor(size * 0.7)
ConstraintCount(size) == (size * 7) \div 10

\* the positions in row-major order
RowMajor(size) ==
    [k \in 1..(size * size) |-> <<(k - 1) \div size, (k - 1) % size>>]

Swap(seq, i, j) == [seq EXCEPT ![i] = seq[j], ![j] = seq[i]]

\* the Fisher-Yates pass "for (i = length - 1; i > 0; i--)": i is the
\* 0-based index of the source, s the generator state
RECURSIVE Shuffle(_, _, _)
Shuffle(positions, i, s) ==
    IF i <= 0 THEN [positions |-> positions, s |-> s]
    ELSE LET s1 == LcgNext(s)
             j  == FloorMul(s1, i + 1)
         IN  Shuffle(Swap(positions, i + 1, j + 1), i - 1, s1)

\* "Place immutable cells": one draw per cell
RECURSIVE PlaceImmutable(_, _, _, _, _)
PlaceImmutable(gs, positions, i, count, s) ==
    IF i >= count THEN [gs |-> gs, s |-> s]
    ELSE LET s1    == LcgNext(s)
             value == IF AboveHalf(s1) THEN "orange" ELSE "moon"
             pos   == positions[i + 1]
         IN  PlaceImmutable(setImmutable(gs, pos[1], pos[2], value).obj,
                            positions, i + 1, count, s1)

\* "Add some constraints": four draws per iteration
RECURSIVE PlaceConstraints(_, _, _, _)
PlaceConstraints(gs, i, count, s) ==
    IF i >= count THEN [gs |-> gs, s |-> s]
    ELSE LET s1   == LcgNext(s)
             s2   == LcgNext(s1)
             s3   == LcgNext(s2)
             s4   == LcgNext(s3)
             row  == FloorMul(s1, gs.size)
             col  == FloorMul(s2, gs.size - 1)
             type == IF AboveHalf(s3) THEN "equal" ELSE "notequal"
             gs1  == IF AboveHalf(s4)
                     THEN addConstraint(gs, row, col, row, col + 1, type).obj
                     ELSE IF row < gs.size - 1
                          THEN addConstraint(gs, row, col, row + 1, col, type).obj
                          ELSE gs
         IN  PlaceConstraints(gs1, i + 1, count, s4)

Min(a, b) == IF a < b THEN a ELSE b

\* storeInitialPuzzleState: a deep copy of the grid and of the constraints
storeInitialPuzzleState(g) ==
    [g EXCEPT !.initialPuzzleState =
        <<[grid |-> g.gridSystem.grid,
           constraints |-> getConstraints(g.gridSystem)]>>]

\* the number of calls of random() initializePuzzle makes before its first
\* statement with an effect: it makes none at all only for size 1
DrawsNeeded(size, difficulty) ==
    size * size > 1 \/ PrefilledCount(size, difficulty) > 0
        \/ ConstraintCount(size) > 0

\* initializePuzzle: [obj |-> the controller after the call, threw |-> TRUE
\* when the call ended in the TypeError of calling the number 0]
initializePuzzle(g) ==
    LET seeded == seedRandom(g, g.seed)
        g0     == seeded.obj
        size   == g0.gridSystem.size
        count  == PrefilledCount(size, g0.difficulty)
        sh     == Shuffle(RowMajor(size), size * size - 1, g0.seedValue)
        pl     == PlaceImmutable(g0.gridSystem, sh.positions, 0,
                                 Min(count, size * size), sh.s)
        co     == PlaceConstraints(pl.gs, 0, ConstraintCount(size), pl.s)
    IN  IF ~seeded.callable /\ DrawsNeeded(size, g0.difficulty)
        THEN [obj |-> g0, threw |-> TRUE]
        ELSE IF ~seeded.callable
        THEN [obj |-> storeInitialPuzzleState(g0), threw |-> FALSE]
        ELSE [obj |-> storeInitialPuzzleState(
                        [g0 EXCEPT !.gridSystem = co.gs, !.seedValue = co.s]),
              threw |-> FALSE]

(***************************************************************************)
(* The rule validator (RuleValidator).  It holds no state of its own and   *)
(* is always bound to the controller's current grid store, so its methods  *)
(* are operators of the grid store.                                        *)
(***************************************************************************)
\* the concatenation f[0] \o f[1] \o ... \o f[n - 1] of the sequences a loop
\* over 0..n-1 pushes
RECURSIVE Flatten(_, _)
Flatten(f, n) == IF n = 0 THEN <<>> ELSE Flatten(f, n - 1) \o f[n - 1]

\* AdjacentScan, were it to count empty cells as it counts symbols
RECURSIVE AdjacentScanCountsEmpty(_, _, _, _, _)
AdjacentScanCountsEmpty(line, size, k, consecutiveCount, currentValue) ==
    IF k >= size THEN <<>>
    ELSE IF line[k] = currentValue
         THEN (IF consecutiveCount + 1 > 2
               THEN <<[at |-> k, value |-> currentValue]>> ELSE <<>>)
              \o AdjacentScanCountsEmpty(line, size, k + 1,
                                         consecutiveCount + 1, currentValue)
         ELSE AdjacentScanCountsEmpty(line, size, k + 1, 1, line[k])

\* the inner loop of validateAdjacentLimits over one line (line[k] is the
\* value at index k): the indices at which consecutiveCount > 2 is found
RECURSIVE AdjacentScan(_, _, _, _, _)
AdjacentScan(line, size, k, consecutiveCount, currentValue) ==
    IF k >= size THEN <<>>
    ELSE IF line[k] = currentValue /\ currentValue # Null
         THEN (IF consecutiveCount + 1 > 2
               THEN <<[at |-> k, value |-> currentValue]>> ELSE <<>>)
              \o AdjacentScan(line, size, k + 1, consecutiveCount + 1,
                              currentValue)
         ELSE AdjacentScan(line, size, k + 1, 1, line[k])

RowLine(gs, row) == [k \in 0..(gs.size - 1) |-> gs.grid[<<row, k>>].value]
ColLine(gs, col) == [k \in 0..(gs.size - 1) |-> gs.grid[<<k, col>>].value]

validateAdjacentLimits(gs) ==
    LET horizontal(row) ==
            LET hits == AdjacentScan(RowLine(gs, row), gs.size, 1, 1,
                                     gs.grid[<<row, 0>>].value)
            IN  [i \in 1..Len(hits) |->
                    [type |-> "adjacent", direction |-> "horizontal",
                     row |-> row, startCol |-> hits[i].at - 2,
                     endCol |-> hits[i].at, value |-> hits[i].value]]
        vertical(col) ==
            LET hits == AdjacentScan(ColLine(gs, col), gs.size, 1, 1,
                                     gs.grid[<<0, col>>].value)
            IN  [i \in 1..Len(hits) |->
                    [type |-> "adjacent", direction |-> "vertical",
                     col |-> col, startRow |-> hits[i].at - 2,
                     endRow |-> hits[i].at, value |-> hits[i].value]]
    IN  Flatten([row \in 0..(gs.size - 1) |-> horizontal(row)], gs.size)
        \o Flatten([col \in 0..(gs.size - 1) |-> vertical(col)], gs.size)

\* the number of cells of a line holding the value v
CountIn(line, v) == Cardinality({k \in DOMAIN line : line[k] = v})

\* MaxAllowed, were it to round down
MaxAllowedFloor(size) == size \div 2

\* Math.ceil(size / 2)
MaxAllowed(size) == (size + 1) \div 2

validateBalance(gs) ==
    LET check(line, direction, index) ==
            LET orangeCount == CountIn(line, "orange")
                moonCount   == CountIn(line, "moon")
            IN  IF orangeCount > MaxAllowed(gs.size)
                   \/ moonCount > MaxAllowed(gs.size)
                THEN <<[type |-> "balance", direction |-> direction,
                        index |-> index, orangeCount |-> orangeCount,
                        moonCount |-> moonCount, exceeded |-> TRUE]>>
                ELSE <<>>
    IN  Flatten([row \in 0..(gs.size - 1) |->
                    check(RowLine(gs, row), "row", row)], gs.size)
        \o Flatten([col \in 0..(gs.size - 1) |->
                    check(ColLine(gs, col), "column", col)], gs.size)

\* validateConstraints, were it to compare the endpoints even when empty
validateConstraintsOnAnyValues(gs) ==
    LET constraints == getConstraints(gs)
        check(constraint) ==
            LET value1 == gs.grid[<<constraint.cell1.row,
                                    constraint.cell1.col>>].value
                value2 == gs.grid[<<constraint.cell2.row,
                                    constraint.cell2.col>>].value
                areEqual == value1 = value2
            IN  IF \/ constraint.type = "equal" /\ ~areEqual
                   \/ constraint.type = "notequal" /\ areEqual
                THEN <<[type |-> "constraint",
                        constraintType |-> constraint.type,
                        cell1 |-> constraint.cell1, cell2 |-> constraint.cell2,
                        value1 |-> value1, value2 |-> value2]>>
                ELSE <<>>
    IN  Flatten([i \in 0..(Len(constraints) - 1) |-> check(constraints[i + 1])],
                Len(constraints))

validateConstraints(gs) ==
    LET constraints == getConstraints(gs)
        check(constraint) ==
            LET value1 == gs.grid[<<constraint.cell1.row,
                                    constraint.cell1.col>>].value
                value2 == gs.grid[<<constraint.cell2.row,
                                    constraint.cell2.col>>].value
                areEqual == value1 = value2
            IN  IF value1 # Null /\ value2 # Null
                   /\ \/ constraint.type = "equal" /\ ~areEqual
                      \/ constraint.type = "notequal" /\ areEqual
                THEN <<[type |-> "constraint",
                        constraintType |-> constraint.type,
                        cell1 |-> constraint.cell1, cell2 |-> constraint.cell2,
                        value1 |-> value1, value2 |-> value2]>>
                ELSE <<>>
    IN  Flatten([i \in 0..(Len(constraints) - 1) |-> check(constraints[i + 1])],
                Len(constraints))

validateAll(gs) ==
    [adjacentErrors   |-> validateAdjacentLimits(gs),
     balanceErrors    |-> validateBalance(gs),
     constraintErrors |-> validateConstraints(gs)]

isValid(gs) ==
    LET validation == validateAll(gs)
    IN  /\ Len(validation.adjacentErrors) = 0
        /\ Len(validation.balanceErrors) = 0
        /\ Len(validation.constraintErrors) = 0

(***************************************************************************)
(* The session controller (GameManager).  The object g is the record of    *)
(* its fields; g.transitions is a history field that lists the values the  *)
(* current call has assigned to gameState, in order.  A method that reads  *)
(* Date.now() takes the instant as its argument now.                       *)
(***************************************************************************)
None == <<>>
Some(x) == <<x>>

setGameState(g, state) ==
    [g EXCEPT !.gameState = state, !.transitions = Append(@, state)]

\* startTimer, were it to start from the instant of the call
startTimerFromZero(g, now) ==
    IF ~g.timer.isRunning
    THEN [g EXCEPT !.timer.startTime = Some(now), !.timer.isRunning = TRUE]
    ELSE g

startTimer(g, now) ==
    IF ~g.timer.isRunning
    THEN [g EXCEPT !.timer.startTime = Some(now - g.timer.elapsedTime),
                   !.timer.isRunning = TRUE]
    ELSE g

pauseTimer(g, now) ==
    IF g.timer.isRunning
    THEN [g EXCEPT !.timer.elapsedTime = now - g.timer.startTime[1],
                   !.timer.isRunning = FALSE]
    ELSE g

\* resetTimer, were it to stop the timer and keep the time it has counted
resetTimerKeepsElapsed(g) ==
    [g EXCEPT !.timer.startTime = None, !.timer.isRunning = FALSE]

resetTimer(g) ==
    [g EXCEPT !.timer = [startTime |-> None, elapsedTime |-> 0,
                         isRunning |-> FALSE]]

getElapsedTime(g, now) ==
    IF g.timer.isRunning THEN now - g.timer.startTime[1]
    ELSE g.timer.elapsedTime

clearMoveHistory(g) ==
    [g EXCEPT !.moveHistory = <<>>, !.currentMoveIndex = -1]

\* startGame, were it to start from any state
startGameFromAnyState(g, now) ==
    [obj |-> startTimer(setGameState(g, "playing"), now), ret |-> TRUE]

startGame(g, now) ==
    IF g.gameState = "ready" \/ g.gameState = "paused"
    THEN [obj |-> startTimer(setGameState(g, "playing"), now), ret |-> TRUE]
    ELSE [obj |-> g, ret |-> FALSE]

\* pauseGame, were it to leave the timer running
pauseGameKeepsTimer(g, now) ==
    IF g.gameState = "playing"
    THEN [obj |-> setGameState(g, "paused"), ret |-> TRUE]
    ELSE [obj |-> g, ret |-> FALSE]

pauseGame(g, now) ==
    IF g.gameState = "playing"
    THEN [obj |-> pauseTimer(setGameState(g, "paused"), now), ret |-> TRUE]
    ELSE [obj |-> g, ret |-> FALSE]

\* the forEach of restoreInitialPuzzleState: each stored constraint is set
\* again under the key rebuilt from its two cells
RECURSIVE RestoreConstraints(_, _, _)
RestoreConstraints(map, stored, i) ==
    IF i > Len(stored) THEN map
    ELSE RestoreConstraints(
            MapSet(map,
                   constraintId(stored[i].cell1.row, stored[i].cell1.col,
                                stored[i].cell2.row, stored[i].cell2.col),
                   stored[i]),
            stored, i + 1)

restoreInitialPuzzleState(g) ==
    IF g.initialPuzzleState = None
    THEN initializePuzzle([g EXCEPT !.gridSystem = clear(g.gridSystem)]).obj
    ELSE LET initial == g.initialPuzzleState[1]
         IN  [g EXCEPT
                !.gridSystem.grid =
                    [pos \in DOMAIN g.gridSystem.grid |->
                        [value |-> initial.grid[pos].value,
                         immutable |-> initial.grid[pos].immutable]],
                !.gridSystem.constraints =
                    RestoreConstraints(<<>>, initial.constraints, 1)]

resetGame(g) ==
    restoreInitialPuzzleState(
        clearMoveHistory(resetTimer(setGameState(g, "ready"))))

\* String.prototype.trim and toUpperCase on the code units of a seed
IsSpace(c) == c \in {9, 10, 11, 12, 13, 32}

RECURSIVE TrimStart(_)
TrimStart(str) ==
    IF Len(str) > 0 /\ IsSpace(Head(str)) THEN TrimStart(Tail(str)) ELSE str

RECURSIVE TrimEnd(_)
TrimEnd(str) ==
    IF Len(str) > 0 /\ IsSpace(str[Len(str)])
    THEN TrimEnd(SubSeq(str, 1, Len(str) - 1)) ELSE str

Trim(str) == TrimEnd(TrimStart(str))

ToUpperCase(str) ==
    [i \in 1..Len(str) |-> IF str[i] \in 97..122 THEN str[i] - 32 ELSE str[i]]

\* newGame(size, difficulty, customSeed): an argument is None for null;
\* generated is the string generateSeed() returns if it is called
newGame(g, size, difficulty, customSeed, generated) ==
    LET newSize == IF size # None /\ size[1] # 0 THEN size[1]
                   ELSE g.gridSystem.size
        g1 == [g EXCEPT
                !.gridSystem = GridSystem(newSize),
                !.difficulty = IF difficulty # None THEN difficulty[1] ELSE @,
                !.seed = IF customSeed # None /\ Len(Trim(customSeed[1])) > 0
                         THEN ToUpperCase(Trim(customSeed[1]))
                         ELSE generated]
    IN  initializePuzzle(
            clearMoveHistory(resetTimer(setGameState(g1, "ready"))))

\* recordMove, were it to append without dropping the redo tail
recordMoveKeepsTail(g, now, row, col, previousValue, newValue) ==
    [g EXCEPT
        !.moveHistory =
            Append(g.moveHistory,
                   [row |-> row, col |-> col, previousValue |-> previousValue,
                    newValue |-> newValue, timestamp |-> now]),
        !.currentMoveIndex = g.currentMoveIndex + 1]

recordMove(g, now, row, col, previousValue, newValue) ==
    [g EXCEPT
        !.moveHistory =
            Append(SubSeq(g.moveHistory, 1, g.currentMoveIndex + 1),
                   [row |-> row, col |-> col, previousValue |-> previousValue,
                    newValue |-> newValue, timestamp |-> now]),
        !.currentMoveIndex = g.currentMoveIndex + 1]

\* isGameCompleted, were it to look at the cells only
isGameCompletedWhenFull(g) ==
    \A pos \in DOMAIN g.gridSystem.grid : g.gridSystem.grid[pos].value # Null

isGameCompleted(g) ==
    /\ \A pos \in DOMAIN g.gridSystem.grid : g.gridSystem.grid[pos].value # Null
    /\ isValid(g.gridSystem)

\* completeGame; of its summary only the time is kept
completeGame(g, now) ==
    LET g1 == pauseTimer(setGameState(g, "completed"), now)
    IN  [obj |-> g1,
         ret |-> [completed |-> TRUE, time |-> getElapsedTime(g1, now),
                  moves |-> Len(g1.moveHistory)]]

\* makeMove, were it to go on whatever the game state
makeMoveWhenInactive(g, now, row, col, value) ==
    LET g1 == IF g.gameState = "ready" THEN startGame(g, now).obj ELSE g
        previousValue == getCellValue(g1.gridSystem, row, col)
        set == setCell(g1.gridSystem, row, col, value)
        g2  == [g1 EXCEPT !.gridSystem = set.obj]
        g3  == recordMove(g2, now, row, col, previousValue, value)
        g4  == IF isGameCompleted(g3) THEN completeGame(g3, now).obj ELSE g3
    IN  IF set.ret
        THEN [obj |-> g4,
              ret |-> [success |-> TRUE, gameState |-> g4.gameState,
                       isValid |-> isValid(g4.gridSystem)]]
        ELSE [obj |-> g2,
              ret |-> [success |-> FALSE, reason |-> "Invalid move"]]

\* makeMove, were it to start the game only once the cell is written
makeMoveStartsAfterWrite(g, now, row, col, value) ==
    IF g.gameState # "playing" /\ g.gameState # "ready"
    THEN [obj |-> g, ret |-> [success |-> FALSE, reason |-> "Game not active"]]
    ELSE LET previousValue == getCellValue(g.gridSystem, row, col)
             set == setCell(g.gridSystem, row, col, value)
             g1  == IF g.gameState = "ready" THEN startGame(g, now).obj ELSE g
             g2  == [g1 EXCEPT !.gridSystem = set.obj]
             g3  == recordMove(g2, now, row, col, previousValue, value)
             g4  == IF isGameCompleted(g3) THEN completeGame(g3, now).obj
                    ELSE g3
         IN  IF set.ret
             THEN [obj |-> g4,
                   ret |-> [success |-> TRUE, gameState |-> g4.gameState,
                            isValid |-> isValid(g4.gridSystem)]]
             ELSE [obj |-> g,
                   ret |-> [success |-> FALSE, reason |-> "Invalid move"]]

makeMove(g, now, row, col, value) ==
    IF g.gameState # "playing" /\ g.gameState # "ready"
    THEN [obj |-> g, ret |-> [success |-> FALSE, reason |-> "Game not active"]]
    ELSE LET g1 == IF g.gameState = "ready" THEN startGame(g, now).obj ELSE g
             previousValue == getCellValue(g1.gridSystem, row, col)
             set == setCell(g1.gridSystem, row, col, value)
             g2  == [g1 EXCEPT !.gridSystem = set.obj]
             g3  == recordMove(g2, now, row, col, previousValue, value)
             g4  == IF isGameCompleted(g3) THEN completeGame(g3, now).obj
                    ELSE g3
         IN  IF set.ret
             THEN [obj |-> g4,
                   ret |-> [success |-> TRUE, gameState |-> g4.gameState,
                            isValid |-> isValid(g4.gridSystem)]]
             ELSE [obj |-> g2,
                   ret |-> [success |-> FALSE, reason |-> "Invalid move"]]

\* undo, were it to move the cursor back without writing the cell
undoLeavesCell(g) ==
    IF g.currentMoveIndex >= 0
    THEN LET move == g.moveHistory[g.currentMoveIndex + 1]
             g1   == [g EXCEPT !.currentMoveIndex = @ - 1]
         IN  [obj |-> g1,
              ret |-> [success |-> TRUE, move |-> move,
                       canUndo |-> g1.currentMoveIndex >= 0,
                       canRedo |-> g1.currentMoveIndex < Len(g1.moveHistory) - 1]]
    ELSE [obj |-> g, ret |-> [success |-> FALSE, reason |-> "No moves to undo"]]

undo(g) ==
    IF g.currentMoveIndex >= 0
    THEN LET move == g.moveHistory[g.currentMoveIndex + 1]
             set  == setCell(g.gridSystem, move.row, move.col,
                             move.previousValue)
         IN  IF set.ret
             THEN LET g1 == [g EXCEPT !.gridSystem = set.obj,
                                      !.currentMoveIndex = @ - 1]
                  IN  [obj |-> g1,
                       ret |-> [success |-> TRUE, move |-> move,
                                canUndo |-> g1.currentMoveIndex >= 0,
                                canRedo |-> g1.currentMoveIndex
                                            < Len(g1.moveHistory) - 1]]
             ELSE [obj |-> g,
                   ret |-> [success |-> FALSE, reason |-> "No moves to undo"]]
    ELSE [obj |-> g, ret |-> [success |-> FALSE, reason |-> "No moves to undo"]]

\* redo, were it to write the value the move replaced
redoWritesPrevious(g) ==
    IF g.currentMoveIndex < Len(g.moveHistory) - 1
    THEN LET g1   == [g EXCEPT !.currentMoveIndex = @ + 1]
             move == g1.moveHistory[g1.currentMoveIndex + 1]
             set  == setCell(g1.gridSystem, move.row, move.col,
                             move.previousValue)
             g2   == [g1 EXCEPT !.gridSystem = set.obj]
         IN  [obj |-> g2,
              ret |-> [success |-> set.ret, move |-> move,
                       canUndo |-> g2.currentMoveIndex >= 0,
                       canRedo |-> g2.currentMoveIndex < Len(g2.moveHistory) - 1,
                       reason |-> "No moves to redo"]]
    ELSE [obj |-> g, ret |-> [success |-> FALSE, reason |-> "No moves to redo"]]

\* redo advances the cursor before it writes the cell
redo(g) ==
    IF g.currentMoveIndex < Len(g.moveHistory) - 1
    THEN LET g1   == [g EXCEPT !.currentMoveIndex = @ + 1]
             move == g1.moveHistory[g1.currentMoveIndex + 1]
             set  == setCell(g1.gridSystem, move.row, move.col, move.newValue)
             g2   == [g1 EXCEPT !.gridSystem = set.obj]
         IN  IF set.ret
             THEN [obj |-> g2,
                   ret |-> [success |-> TRUE, move |-> move,
                            canUndo |-> g2.currentMoveIndex >= 0,
                            canRedo |-> g2.currentMoveIndex
                                        < Len(g2.moveHistory) - 1]]
             ELSE [obj |-> g2,
                   ret |-> [success |-> FALSE, reason |-> "No moves to redo"]]
    ELSE [obj |-> g, ret |-> [success |-> FALSE, reason |-> "No moves to redo"]]

\* calculateHint: the first constraint, in insertion order, that has the
\* cell as an endpoint and a filled cell at the other end decides; None
\* for null
RECURSIVE HintFrom(_, _, _, _, _)
HintFrom(gs, constraints, i, row, col) ==
    IF i > Len(constraints) THEN None
    ELSE LET constraint == constraints[i]
             isCell1 == constraint.cell1.row = row /\ constraint.cell1.col = col
             isCell2 == constraint.cell2.row = row /\ constraint.cell2.col = col
             otherCell  == IF isCell1 THEN constraint.cell2 ELSE constraint.cell1
             otherValue == gs.grid[<<otherCell.row, otherCell.col>>].value
         IN  IF (isCell1 \/ isCell2) /\ otherValue # Null
                /\ constraint.type = "equal"
             THEN Some(otherValue)
             ELSE IF (isCell1 \/ isCell2) /\ otherValue # Null
                     /\ constraint.type = "notequal"
             THEN Some(IF otherValue = "orange" THEN "moon" ELSE "orange")
             ELSE HintFrom(gs, constraints, i + 1, row, col)

calculateHint(g, row, col) ==
    HintFrom(g.gridSystem, getConstraints(g.gridSystem), 1, row, col)

\* the row-major scan of getHint from the k-th cell on
RECURSIVE HintScan(_, _)
HintScan(g, k) ==
    LET size == g.gridSystem.size
        row  == k \div size
        col  == k % size
        cell == g.gridSystem.grid[<<row, col>>]
        hint == calculateHint(g, row, col)
    IN  IF k >= size * size
        THEN [success |-> FALSE, reason |-> "No obvious hints available"]
        ELSE IF cell.value = Null /\ ~cell.immutable /\ hint # None
        THEN [success |-> TRUE, row |-> row, col |-> col,
              suggestedValue |-> hint[1],
              reason |-> "Based on current constraints"]
        ELSE HintScan(g, k + 1)

\* getHint with the test of the game state left out
getHintWhenInactive(g) ==
    [obj |-> g, ret |-> HintScan(g, 0)]

getHint(g) ==
    IF g.gameState # "playing"
    THEN [obj |-> g, ret |-> [success |-> FALSE, reason |-> "Game not active"]]
    ELSE [obj |-> g, ret |-> HintScan(g, 0)]

\* GameManager.serialize; gridState.grid is the grid array of the store
serialize(g) ==
    [gridState |-> gridSerialize(g.gridSystem), gameState |-> g.gameState,
     difficulty |-> g.difficulty, seed |-> g.seed, timer |-> g.timer,
     moveHistory |-> g.moveHistory, currentMoveIndex |-> g.currentMoveIndex]

\* GameManager.deserialize; seedValue and initialPuzzleState are not
\* assigned
deserialize(g, data) ==
    [g EXCEPT !.gridSystem = gridDeserialize(g.gridSystem, data.gridState),
              !.gameState = data.gameState,
              !.difficulty = data.difficulty,
              !.seed = data.seed,
              !.timer = data.timer,
              !.moveHistory = data.moveHistory,
              !.currentMoveIndex = data.currentMoveIndex]

\* the constructor: the fields as assigned, then initializePuzzle; generated
\* is the string generateSeed() returned, seedValue is not assigned before
\* seedRandom assigns it
GameManager(size, difficulty, generated) ==
    initializePuzzle(
        [gridSystem |-> GridSystem(size), gameState |-> "ready",
         difficulty |-> difficulty, seed |-> generated, seedValue |-> Zero32,
         timer |-> [startTime |-> None, elapsedTime |-> 0, isRunning |-> FALSE],
         moveHistory |-> <<>>, currentMoveIndex |-> -1,
         initialPuzzleState |-> None, transitions |-> <<>>])

(***************************************************************************)
(* The state: the fields of one GameManager, the clock Date.now() reads,   *)
(* and three history variables: last describes the latest call, generated  *)
(* is the puzzle as initializePuzzle left it, playedTime is the time the   *)
(* clock has advanced in Playing since the last resetGame or newGame.      *)
(* saved is the object the latest serialize() returned, kept by the        *)
(* caller: None, or data (the object; its gridState.grid is the grid array *)
(* it refers to), live (that array is the one the store holds now, so a    *)
(* write to a cell of the store is a write to data.gridState.grid) and     *)
(* taken (a history field: the controller as it was at the call).          *)
(***************************************************************************)
VARIABLES gridSystem, gameState, difficulty, seed, seedValue, timer,
          moveHistory, currentMoveIndex, initialPuzzleState, transitions,
          now, last, generated, playedTime, saved

fields == <<gridSystem, gameState, difficulty, seed, seedValue, timer,
            moveHistory, currentMoveIndex, initialPuzzleState, transitions>>
vars == <<fields, now, last, generated, playedTime, saved>>

\* the controller object
self ==
    [gridSystem |-> gridSystem, gameState |-> gameState,
     difficulty |-> difficulty, seed |-> seed, seedValue |-> seedValue,
     timer |-> timer, moveHistory |-> moveHistory,
     currentMoveIndex |-> currentMoveIndex,
     initialPuzzleState |-> initialPuzzleState, transitions |-> transitions]

\* the fields of the controller object become those of g
Assign(g) ==
    /\ gridSystem' = g.gridSystem
    /\ gameState' = g.gameState
    /\ difficulty' = g.difficulty
    /\ seed' = g.seed
    /\ seedValue' = g.seedValue
    /\ timer' = g.timer
    /\ moveHistory' = g.moveHistory
    /\ currentMoveIndex' = g.currentMoveIndex
    /\ initialPuzzleState' = g.initialPuzzleState
    /\ transitions' = g.transitions

\* the saved object once the store's grid array holds the given cells
Shared(grid) ==
    IF saved # None /\ saved[1].live
    THEN <<[saved[1] EXCEPT !.data.gridState.grid = grid]>>
    ELSE saved

\* the saved object once the store is replaced by a new one
Detached ==
    IF saved # None THEN <<[saved[1] EXCEPT !.live = FALSE]>> ELSE saved

\* the controller object becomes g, its store writing the cells in place
Becomes(g) ==
    /\ Assign(g)
    /\ saved' = Shared(g.gridSystem.grid)

\* the object at the start of a call
Called == [self EXCEPT !.transitions = <<>>]

\* what a call found: the cursor and the length of the history (afterUndo
\* tells a redo that the call before it was a successful undo)
Before ==
    [currentMoveIndex |-> currentMoveIndex, historyLength |-> Len(moveHistory)]

\* the kind of cell a call addresses
Target(gs, row, col) ==
    IF ~isValidPosition(gs, row, col) THEN "outside"
    ELSE IF gs.grid[<<row, col>>].immutable THEN "immutable"
    ELSE "mutable"

Puzzle(gs) == [grid |-> gs.grid, constraints |-> getConstraints(gs)]

(***************************************************************************)
(* Bounds and inputs.                                                      *)
(***************************************************************************)
\* the longest move history explored
MaxMoves == 2

SeedTEST1234 == <<84, 69, 83, 84, 49, 50, 51, 52>>
SeedA == <<65>>
SeedAB == <<65, 66>>

\* the strings " test1234", "  " and "" as customSeed arguments
CustomTest1234 == <<32, 116, 101, 115, 116, 49, 50, 51, 52>>
CustomBlank == <<32, 32>>
CustomEmpty == <<>>

\* the (size, difficulty) arguments and the generateSeed() result of the
\* constructor calls
PlayConfigs ==
    {<<1, "easy", SeedA>>, <<2, "medium", SeedTEST1234>>}

\* the (size, difficulty, customSeed) arguments of the newGame calls, each
\* with the string generateSeed() returns if it is called
NewGameArgs ==
    {<<Some(2), Some("medium"), Some(CustomTest1234), SeedA>>,
     <<Some(1), Some("easy"), Some(CustomBlank), SeedA>>,
     <<Some(0), None, Some(CustomEmpty), SeedTEST1234>>}

\* the row and column arguments of a move on a grid of the given size
Coords(size) == -1..size

(***************************************************************************)
(* The initial state: a controller as its constructor leaves it.           *)
(***************************************************************************)
Constructed(size, d, generatedSeed) ==
    LET made == GameManager(size, d, generatedSeed)
    IN  /\ ~made.threw
        /\ gridSystem = made.obj.gridSystem
        /\ gameState = made.obj.gameState
        /\ difficulty = made.obj.difficulty
        /\ seed = made.obj.seed
        /\ seedValue = made.obj.seedValue
        /\ timer = made.obj.timer
        /\ moveHistory = made.obj.moveHistory
        /\ currentMoveIndex = made.obj.currentMoveIndex
        /\ initialPuzzleState = made.obj.initialPuzzleState
        /\ transitions = made.obj.transitions
        /\ now = 0
        /\ last = [op |-> "constructor", target |-> "none",
                   ret |-> [threw |-> FALSE],
                   before |-> [currentMoveIndex |-> -1, historyLength |-> 0],
                   afterUndo |-> FALSE]
        /\ generated = Puzzle(made.obj.gridSystem)
        /\ playedTime = 0
        /\ saved = None

InitOf(configs) == \E cfg \in configs : Constructed(cfg[1], cfg[2], cfg[3])

Init == InitOf(PlayConfigs)

(***************************************************************************)
(* The calls.                                                              *)
(***************************************************************************)
Returns(op, target, ret) ==
    last' = [op |-> op, target |-> target, ret |-> ret, before |-> Before,
             afterUndo |-> op = "redo" /\ last.op = "undo" /\ last.ret.success]

StartGame ==
    LET r == startGame(Called, now)
    IN  /\ Becomes(r.obj)
        /\ Returns("startGame", "none", [value |-> r.ret])
        /\ UNCHANGED <<now, generated, playedTime>>

PauseGame ==
    LET r == pauseGame(Called, now)
    IN  /\ Becomes(r.obj)
        /\ Returns("pauseGame", "none", [value |-> r.ret])
        /\ UNCHANGED <<now, generated, playedTime>>

ResetGame ==
    /\ Becomes(resetGame(Called))
    /\ Returns("resetGame", "none", [void |-> TRUE])
    /\ playedTime' = 0
    /\ UNCHANGED <<now, generated>>

NewGameWith(arguments) ==
    \E args \in arguments :
        LET r == newGame(Called, args[1], args[2], args[3], args[4])
        IN  /\ ~r.threw
            /\ Assign(r.obj)
            /\ saved' = Detached
            /\ Returns("newGame", "none", [threw |-> r.threw])
            /\ generated' = Puzzle(r.obj.gridSystem)
            /\ playedTime' = 0
            /\ UNCHANGED now

NewGame == NewGameWith(NewGameArgs)

\* a move that leaves at most cap records in the history
MakeMoveWithin(cap) ==
    \E row \in Coords(gridSystem.size), col \in Coords(gridSystem.size),
       value \in Values :
        LET r == makeMove(Called, now, row, col, value)
        IN  /\ Len(r.obj.moveHistory) <= cap
            /\ Becomes(r.obj)
            /\ Returns("makeMove", Target(gridSystem, row, col), r.ret)
            /\ UNCHANGED <<now, generated, playedTime>>

MakeMove == MakeMoveWithin(MaxMoves)

Undo ==
    LET r == undo(Called)
    IN  /\ Becomes(r.obj)
        /\ Returns("undo", "none", r.ret)
        /\ UNCHANGED <<now, generated, playedTime>>

Redo ==
    LET r == redo(Called)
    IN  /\ Becomes(r.obj)
        /\ Returns("redo", "none", r.ret)
        /\ UNCHANGED <<now, generated, playedTime>>

GetHint ==
    LET r == getHint(Called)
    IN  /\ Becomes(r.obj)
        /\ Returns("getHint", "none", r.ret)
        /\ UNCHANGED <<now, generated, playedTime>>

\* the session controller called at one instant of the clock
Next ==
    \/ StartGame
    \/ PauseGame
    \/ ResetGame
    \/ NewGame
    \/ MakeMove
    \/ Undo
    \/ Redo
    \/ GetHint

Spec == Init /\ [][Next]_vars

(***************************************************************************)
(* A player who fills the grid cell by cell in row-major order, on grids   *)
(* large enough for every kind of violation.                               *)
(***************************************************************************)
FillConfigs ==
    {<<2, "medium", SeedTEST1234>>, <<3, "medium", SeedTEST1234>>}

\* the row-major indices of the empty cells
EmptyCells(gs) ==
    {k \in 0..(gs.size * gs.size - 1) :
        gs.grid[<<k \div gs.size, k % gs.size>>].value = Null}

FirstEmpty(gs) ==
    CHOOSE k \in EmptyCells(gs) : \A other \in EmptyCells(gs) : k <= other

FillNext ==
    /\ EmptyCells(gridSystem) # {}
    /\ \E value \in Symbols :
          LET row == FirstEmpty(gridSystem) \div gridSystem.size
              col == FirstEmpty(gridSystem) % gridSystem.size
              r   == makeMove(Called, now, row, col, value)
          IN  /\ Becomes(r.obj)
              /\ Returns("makeMove", Target(gridSystem, row, col), r.ret)
              /\ UNCHANGED <<now, generated, playedTime>>

InitFill == InitOf(FillConfigs)

NextFill ==
    \/ FillNext
    \/ Undo
    \/ Redo
    \/ StartGame
    \/ PauseGame

SpecFill == InitFill /\ [][NextFill]_vars

(***************************************************************************)
(* The grid store called directly, beside the controller that owns it.     *)
(***************************************************************************)
\* the longest move history explored beside direct calls of the store
MaxGridMoves == 1

GridConfigs == {<<2, "medium", SeedTEST1234>>}

SetCell ==
    \E row \in Coords(gridSystem.size), col \in Coords(gridSystem.size),
       value \in Values :
        LET r == setCell(gridSystem, row, col, value)
        IN  /\ Becomes([Called EXCEPT !.gridSystem = r.obj])
            /\ Returns("setCell", Target(gridSystem, row, col),
                       [value |-> r.ret])
            /\ UNCHANGED <<now, generated, playedTime>>

Clear ==
    /\ Becomes([Called EXCEPT !.gridSystem = clear(gridSystem)])
    /\ Returns("clear", "none", [void |-> TRUE])
    /\ UNCHANGED <<now, generated, playedTime>>

\* a move on an immutable cell or outside the grid, or a move that fills
\* the first empty cell
GridMove ==
    \E row \in Coords(gridSystem.size), col \in Coords(gridSystem.size),
       value \in Symbols :
        LET r == makeMove(Called, now, row, col, value)
        IN  /\ \/ Target(gridSystem, row, col) # "mutable"
               \/ /\ Len(moveHistory) < MaxGridMoves
                  /\ EmptyCells(gridSystem) # {}
                  /\ row * gridSystem.size + col = FirstEmpty(gridSystem)
            /\ Becomes(r.obj)
            /\ Returns("makeMove", Target(gridSystem, row, col), r.ret)
            /\ UNCHANGED <<now, generated, playedTime>>

InitGrid == InitOf(GridConfigs)

NextGrid ==
    \/ SetCell
    \/ Clear
    \/ GridMove
    \/ Undo
    \/ Redo
    \/ ResetGame
    \/ NewGame

SpecGrid == InitGrid /\ [][NextGrid]_vars

(***************************************************************************)
(* The controller under a clock that advances between the calls.           *)
(***************************************************************************)
\* the latest instant of the clock
MaxClock == 3

\* the longest move history explored under the advancing clock
MaxTimedMoves == 1

TimedConfigs == {<<1, "easy", SeedA>>, <<2, "medium", SeedTEST1234>>}

Tick ==
    /\ now < MaxClock
    /\ now' = now + 1
    /\ playedTime' = IF gameState = "playing" THEN playedTime + 1
                     ELSE playedTime
    /\ UNCHANGED <<fields, last, generated, saved>>

TimedMove ==
    /\ Len(moveHistory) < MaxTimedMoves
    /\ FillNext

InitTimed == InitOf(TimedConfigs)

NextTimed ==
    \/ Tick
    \/ StartGame
    \/ PauseGame
    \/ ResetGame
    \/ TimedMove
    \/ Undo
    \/ Redo
    \/ NewGame

SpecTimed == InitTimed /\ [][NextTimed]_vars

(***************************************************************************)
(* Generation over the sizes, difficulties and seeds, on a controller that *)
(* has generated and played before.                                        *)
(***************************************************************************)
\* the largest grid generated
MaxSize == 4

\* the longest move history explored between generations
MaxGenMoves == 1

\* the three difficulties the generator names, and one it does not
Difficulties == {"easy", "medium", "hard", "expert"}

Seeds == {SeedTEST1234, SeedA, SeedAB}

GenConfigs == (1..MaxSize) \X Difficulties \X Seeds

\* newGame with each size, difficulty and seed, and with the arguments that
\* fall back to the current size and difficulty and to generateSeed()
GenArgs ==
    {<<Some(cfg[1]), Some(cfg[2]), Some(cfg[3]), SeedA>> : cfg \in GenConfigs}
        \cup NewGameArgs

GenNewGame == NewGameWith(GenArgs)

GenMove ==
    /\ Len(moveHistory) < MaxGenMoves
    /\ FillNext

InitGen == InitOf(GenConfigs)

NextGen ==
    \/ GenNewGame
    \/ GenMove
    \/ ResetGame

SpecGen == InitGen /\ [][NextGen]_vars

(***************************************************************************)
(* The validator on stores that hold any values: a controller whose store  *)
(* was filled by setCell and addConstraint calls.                          *)
(***************************************************************************)
\* the largest grid validated
MaxLine == 4

\* the number of leading cells, in row-major or in column-major order, that
\* hold drawn values
MaxDrawn == 8

\* the most addConstraint calls made on a store
MaxConstraints == 3

\* the grid of a store after setCell calls on its leading cells, taken by
\* rows (byRow) or by columns: the k-th cell holds drawn[k]
LineGrid(size, drawn, byRow) ==
    [pos \in Positions(size) |->
        LET k == IF byRow THEN pos[1] * size + pos[2]
                 ELSE pos[2] * size + pos[1]
        IN  [value |-> IF k < MaxDrawn THEN drawn[k] ELSE Null,
             immutable |-> FALSE]]

LineStores(size) ==
    {[GridSystem(size) EXCEPT !.grid = LineGrid(size, drawn, byRow)] :
        drawn \in [0..(Min(MaxDrawn, size * size) - 1) -> Values],
        byRow \in BOOLEAN}

\* the arguments of the addConstraint calls on a 2x2 store
ConstraintCalls ==
    {<<0, 0, 0, 1>>, <<0, 0, 1, 0>>, <<1, 0, 1, 1>>} \X {"equal", "notequal"}

\* the stores n addConstraint calls leave of the stores in the set
RECURSIVE Constrained(_, _)
Constrained(stores, n) ==
    IF n = 0 THEN stores
    ELSE stores \cup
         Constrained({addConstraint(gs, call[1][1], call[1][2], call[1][3],
                                    call[1][4], call[2]).obj :
                        gs \in stores, call \in ConstraintCalls}, n - 1)

ConstrainedStores ==
    Constrained({[GridSystem(2) EXCEPT
                    !.grid = [pos \in Positions(2) |->
                                [value |-> drawn[pos], immutable |-> FALSE]]] :
                    drawn \in [Positions(2) -> Values]},
                MaxConstraints)

\* the stores of a size
Stores(size) ==
    LineStores(size) \cup (IF size = 2 THEN ConstrainedStores ELSE {})

InitRules ==
    \E size \in 1..MaxLine :
      \E made \in {GameManager(size, "medium", SeedA).obj} :
        \E store \in Stores(size) :
            /\ gridSystem = store
            /\ gameState = made.gameState
            /\ difficulty = made.difficulty
            /\ seed = made.seed
            /\ seedValue = made.seedValue
            /\ timer = made.timer
            /\ moveHistory = made.moveHistory
            /\ currentMoveIndex = made.currentMoveIndex
            /\ initialPuzzleState = made.initialPuzzleState
            /\ transitions = made.transitions
            /\ now = 0
            /\ last = [op |-> "constructor", target |-> "none",
                       ret |-> [threw |-> FALSE],
                       before |-> [currentMoveIndex |-> -1, historyLength |-> 0],
                       afterUndo |-> FALSE]
            /\ generated = Puzzle(made.gridSystem)
            /\ playedTime = 0
            /\ saved = None

ValidateAll ==
    /\ Returns("validateAll", "none", validateAll(gridSystem))
    /\ UNCHANGED <<fields, now, generated, playedTime, saved>>

IsValid ==
    /\ Returns("isValid", "none", [value |-> isValid(gridSystem)])
    /\ UNCHANGED <<fields, now, generated, playedTime, saved>>

NextRules ==
    \/ ValidateAll
    \/ IsValid

SpecRules == InitRules /\ [][NextRules]_vars

(***************************************************************************)
(* Saving and restoring: the caller keeps the object serialize() returned   *)
(* and hands it back to deserialize().                                     *)
(***************************************************************************)
\* the longest move history explored around a saved object
MaxSavedMoves == 2

SavedConfigs == {<<2, "medium", SeedTEST1234>>}

Serialize ==
    /\ saved' = <<[data |-> serialize(self), live |-> TRUE,
                   taken |-> Called]>>
    /\ Returns("serialize", "none", [void |-> TRUE])
    /\ UNCHANGED <<fields, now, generated, playedTime>>

\* deserialize(saved): the store takes the grid array the object refers to
Deserialize ==
    /\ saved # None
    /\ Assign(deserialize(Called, saved[1].data))
    /\ saved' = <<[saved[1] EXCEPT !.live = TRUE]>>
    /\ Returns("deserialize", "none", [void |-> TRUE])
    /\ UNCHANGED <<now, generated, playedTime>>

SavedMove ==
    /\ Len(moveHistory) < MaxSavedMoves
    /\ FillNext

InitSaved == InitOf(SavedConfigs)

NextSaved ==
    \/ Serialize
    \/ Deserialize
    \/ SavedMove
    \/ Undo
    \/ Redo

SpecSaved == InitSaved /\ [][NextSaved]_vars

(***************************************************************************)
(* Hints: the session controller on a 2x2 puzzle whose store is also given *)
(* constraints by addConstraint calls.                                     *)
(***************************************************************************)
\* the longest move history explored around hints
MaxHintMoves == 2

\* the most constraints the store holds
MaxHintConstraints == 3

HintConfigs == {<<2, "medium", SeedTEST1234>>}

AddConstraint ==
    \E call \in ConstraintCalls :
        LET r == addConstraint(gridSystem, call[1][1], call[1][2], call[1][3],
                               call[1][4], call[2])
        IN  /\ Len(r.obj.constraints) <= MaxHintConstraints
            /\ Becomes([Called EXCEPT !.gridSystem = r.obj])
            /\ Returns("addConstraint", "none", [void |-> TRUE])
            /\ UNCHANGED <<now, generated, playedTime>>

HintMove ==
    \E row \in 0..(gridSystem.size - 1), col \in 0..(gridSystem.size - 1),
       value \in Symbols :
        LET r == makeMove(Called, now, row, col, value)
        IN  /\ Len(moveHistory) < MaxHintMoves
            /\ gridSystem.grid[<<row, col>>].value = Null
            /\ Becomes(r.obj)
            /\ Returns("makeMove", Target(gridSystem, row, col), r.ret)
            /\ UNCHANGED <<now, generated, playedTime>>

InitHint == InitOf(HintConfigs)

NextHint ==
    \/ AddConstraint
    \/ HintMove
    \/ Undo
    \/ StartGame
    \/ PauseGame
    \/ GetHint

SpecHint == InitHint /\ [][NextHint]_vars

(***************************************************************************)
(* Seeds: newGame with every string generateSeed() can return, the empty   *)
(* string among them: Math.random() may return 0, (0).toString(36) is "0"  *)
(* and "0".substr(2, 8) is "".  A call that ends in a TypeError leaves the *)
(* fields as they were assigned up to the throw.                           *)
(***************************************************************************)
\* the longest move history explored between generations
MaxSeedMoves == 1

SeedConfigs == {<<1, "medium", SeedA>>, <<2, "medium", SeedA>>}

\* the strings generateSeed() returns
GeneratedSeeds == {<<>>, SeedA, SeedAB, SeedTEST1234}

\* newGame() and newGame(null, difficulty, customSeed), each with the string
\* generateSeed() returns if it is called
SeedArgs ==
    {<<None, None, None, generatedSeed>> : generatedSeed \in GeneratedSeeds}
        \cup {<<None, Some("easy"), Some(customSeed), generatedSeed>> :
                customSeed \in {CustomEmpty, CustomBlank, CustomTest1234},
                generatedSeed \in GeneratedSeeds}

SeedNewGame ==
    \E args \in SeedArgs :
        LET r == newGame(Called, args[1], args[2], args[3], args[4])
        IN  /\ Assign(r.obj)
            /\ saved' = Detached
            /\ Returns("newGame", "none", [threw |-> r.threw])
            /\ generated' = Puzzle(r.obj.gridSystem)
            /\ playedTime' = 0
            /\ UNCHANGED now

SeedMove ==
    /\ Len(moveHistory) < MaxSeedMoves
    /\ FillNext

InitSeed == InitOf(SeedConfigs)

NextSeed ==
    \/ SeedNewGame
    \/ SeedMove
    \/ Undo
    \/ ResetGame

SpecSeed == InitSeed /\ [][NextSeed]_vars

(***************************************************************************)
(* Restoring: a saved object handed to deserialize() after newGame has     *)
(* generated another puzzle of the same size, then resetGame.              *)
(***************************************************************************)
\* the longest move history explored around a restore
MaxRestoreMoves == 1

RestoreConfigs == {<<2, "medium", SeedTEST1234>>}

\* newGame(null, 'easy', ' test1234') and newGame(null, 'medium') with the
\* string generateSeed() returns
RestoreArgs ==
    {<<None, Some("easy"), Some(CustomTest1234), SeedA>>,
     <<None, Some("medium"), None, SeedAB>>}

RestoreNewGame == NewGameWith(RestoreArgs)

\* the caller saves one object
RestoreSerialize ==
    /\ saved = None
    /\ Serialize

RestoreMove ==
    /\ Len(moveHistory) < MaxRestoreMoves
    /\ FillNext

InitRestore == InitOf(RestoreConfigs)

NextRestore ==
    \/ RestoreSerialize
    \/ Deserialize
    \/ RestoreNewGame
    \/ RestoreMove
    \/ ResetGame

SpecRestore == InitRestore /\ [][NextRestore]_vars

(***************************************************************************)
(* Properties.                                                             *)
(***************************************************************************)
\* the step is a call of the method op (the clock advances between calls)
Calls(op) == last'.op = op /\ now' = now

\* the records of the history up to and including the cursor
Applied(history, cursor) == SubSeq(history, 1, cursor + 1)

\* C1: a successful makeMove made while the cursor is below the last index
\* of moveHistory leaves moveHistory as the old records up to the cursor
\* followed by one new record (the value written, and the value it
\* replaced, at the cell written), the cursor on that last record, and
\* nothing to redo.
C1_RedoTailDiscarded ==
    [][(/\ Calls("makeMove")
        /\ last'.ret.success
        /\ currentMoveIndex < Len(moveHistory) - 1)
       => LET new == moveHistory'[Len(moveHistory')]
              pos == <<new.row, new.col>>
          IN  /\ Len(moveHistory') = currentMoveIndex + 2
              /\ Applied(moveHistory', currentMoveIndex)
                    = Applied(moveHistory, currentMoveIndex)
              /\ new.previousValue = gridSystem.grid[pos].value
              /\ new.newValue = gridSystem'.grid[pos].value
              /\ currentMoveIndex' = Len(moveHistory') - 1
              /\ ~redo(self').ret.success]_vars

\* C1 witness: a move was made and recorded while records were redoable
C1_Witness ==
    /\ last.op = "makeMove"
    /\ last.ret.success
    /\ last.before.currentMoveIndex < last.before.historyLength - 1
    /\ Len(moveHistory) = last.before.currentMoveIndex + 2

\* C2: where the cursor is at a record and undo succeeds, undo followed at
\* once by redo leaves every cell value, moveHistory and currentMoveIndex
\* as they were before the undo.
C2_UndoRedoRoundTrip ==
    LET undone == undo(Called)
        redone == redo([undone.obj EXCEPT !.transitions = <<>>])
    IN  (currentMoveIndex >= 0 /\ undone.ret.success)
        => /\ redone.ret.success
           /\ \A pos \in DOMAIN gridSystem.grid :
                 redone.obj.gridSystem.grid[pos].value
                    = gridSystem.grid[pos].value
           /\ redone.obj.moveHistory = moveHistory
           /\ redone.obj.currentMoveIndex = currentMoveIndex

\* C2 witness: a redo has just followed a successful undo of a move that
\* changed its cell
C2_Witness ==
    /\ last.op = "redo"
    /\ last.afterUndo
    /\ last.ret.success
    /\ last.ret.move.previousValue # last.ret.move.newValue
    /\ currentMoveIndex >= 0
    /\ undo(Called).ret.success

\* the values gameState takes during a step, from the one it had
Path == <<gameState>> \o transitions'

\* an edge of the lifecycle, as the call op may take it
Edge(from, to, op) ==
    \/ from = to
    \/ from = "ready" /\ to = "playing" /\ op \in {"startGame", "makeMove"}
    \/ from = "playing" /\ to = "paused" /\ op = "pauseGame"
    \/ from = "paused" /\ to = "playing" /\ op = "startGame"
    \/ from = "playing" /\ to = "completed" /\ op = "makeMove"
    \/ to = "ready" /\ op \in {"resetGame", "newGame"}

\* C4: gameState starts at Ready; every assignment a call makes to
\* gameState follows an edge of the lifecycle (Ready->Playing by startGame
\* or the auto-start of makeMove, Playing->Paused by pauseGame,
\* Paused->Playing by startGame, Playing->Completed by makeMove, any->Ready
\* by resetGame or newGame), gameState changes in no other way, and
\* Completed is left by resetGame and newGame only.
C4_Lifecycle ==
    /\ gameState = "ready"
    /\ [][now' = now =>
            /\ \A i \in 1..Len(transitions') :
                  Edge(Path[i], Path[i + 1], last'.op)
            /\ gameState' = Path[Len(Path)]
            /\ (gameState = "completed"
                    /\ last'.op \notin {"resetGame", "newGame"})
               => gameState' = "completed"]_vars

\* C4 witness: startGame has been called on a completed game, which stays
\* completed
C4_Witness ==
    /\ gameState = "completed"
    /\ last.op = "startGame"
    /\ ~last.ret.value

\* C6: makeMove called while gameState is Paused or Completed returns
\* {success: false, reason: "Game not active"} and leaves the grid,
\* moveHistory, currentMoveIndex, gameState and timer unchanged, whatever
\* its arguments.
C6_MoveWhenInactive ==
    [][(Calls("makeMove") /\ gameState \in {"paused", "completed"})
       => /\ last'.ret = [success |-> FALSE, reason |-> "Game not active"]
          /\ UNCHANGED <<gridSystem, moveHistory, currentMoveIndex,
                         gameState, timer>>]_vars

\* C6 witness: a move on a mutable cell inside the grid was refused while
\* the game was paused
C6_Witness ==
    /\ last.op = "makeMove"
    /\ last.target = "mutable"
    /\ ~last.ret.success
    /\ last.ret.reason = "Game not active"
    /\ gameState = "paused"

\* C7: makeMove called in Ready or Playing on an immutable cell or on a
\* position outside the grid returns {success: false, reason: "Invalid
\* move"}, appends no record, and leaves moveHistory, currentMoveIndex and
\* every cell value unchanged.
C7_InvalidMove ==
    [][(/\ Calls("makeMove")
        /\ gameState \in {"ready", "playing"}
        /\ last'.target \in {"immutable", "outside"})
       => /\ last'.ret = [success |-> FALSE, reason |-> "Invalid move"]
          /\ moveHistory' = moveHistory
          /\ currentMoveIndex' = currentMoveIndex
          /\ \A pos \in DOMAIN gridSystem.grid :
                gridSystem'.grid[pos].value = gridSystem.grid[pos].value]_vars

\* C7 witness: a move on an immutable cell was refused with records in the
\* history
C7_Witness ==
    /\ last.op = "makeMove"
    /\ last.target = "immutable"
    /\ ~last.ret.success
    /\ last.ret.reason = "Invalid move"
    /\ last.before.historyLength > 0
    /\ Len(moveHistory) = last.before.historyLength

\* C3: a cell marked immutable keeps its value and its flag under every
\* setCell, makeMove, undo, redo and clear call; a setCell or makeMove that
\* addresses it fails, an undo or redo that succeeds has written a mutable
\* cell; and no call but newGame changes which cells are immutable.
C3_ImmutableCells ==
    [][now' = now =>
        /\ last'.op \in {"setCell", "makeMove", "undo", "redo", "clear"}
           => /\ \A pos \in DOMAIN gridSystem.grid :
                    gridSystem.grid[pos].immutable
                    => gridSystem'.grid[pos] = gridSystem.grid[pos]
              /\ (last'.op = "setCell" /\ last'.target = "immutable")
                 => ~last'.ret.value
              /\ (last'.op = "makeMove" /\ last'.target = "immutable")
                 => ~last'.ret.success
              /\ (last'.op \in {"undo", "redo"} /\ last'.ret.success)
                 => ~gridSystem.grid[<<last'.ret.move.row,
                                       last'.ret.move.col>>].immutable
        /\ last'.op # "newGame"
           => /\ DOMAIN gridSystem'.grid = DOMAIN gridSystem.grid
              /\ \A pos \in DOMAIN gridSystem.grid :
                    gridSystem'.grid[pos].immutable
                        = gridSystem.grid[pos].immutable]_vars

\* C3 witness: setCell was called on an immutable cell, failed, and the
\* cell still holds its symbol
C3_Witness ==
    /\ last.op = "setCell"
    /\ last.target = "immutable"
    /\ ~last.ret.value
    /\ \E pos \in DOMAIN gridSystem.grid :
          gridSystem.grid[pos].immutable /\ gridSystem.grid[pos].value \in Symbols

\* every cell of the grid holds a symbol
Full(gs) == \A pos \in DOMAIN gs.grid : gs.grid[pos].value # Null

\* the validator reports no adjacency, balance or constraint violation
Clean(gs) ==
    /\ validateAdjacentLimits(gs) = <<>>
    /\ validateBalance(gs) = <<>>
    /\ validateConstraints(gs) = <<>>

\* C5: after a successful makeMove gameState is Completed, with the timer
\* not running, exactly when every cell is non-empty and the validator
\* reports no violation; otherwise it is Playing; and isGameCompleted() is
\* false while a cell is empty.
C5_CompletionOnMove ==
    [][(Calls("makeMove") /\ last'.ret.success)
       => /\ (Full(gridSystem') /\ Clean(gridSystem'))
             => (gameState' = "completed" /\ ~timer'.isRunning)
          /\ ~(Full(gridSystem') /\ Clean(gridSystem'))
             => gameState' = "playing"
          /\ ~Full(gridSystem') => ~isGameCompleted(self')]_vars

\* C5 witness: the move that filled the last cell of a 3x3 grid without a
\* violation completed the game
C5_Witness ==
    /\ last.op = "makeMove"
    /\ last.ret.success
    /\ gridSystem.size = 3
    /\ Full(gridSystem)
    /\ Clean(gridSystem)
    /\ gameState = "completed"

\* C8: resetGame leaves gameState Ready, moveHistory empty,
\* currentMoveIndex -1, the timer zeroed and not running, and the grid
\* (values and immutable flags) and the constraints as generation left
\* them; and the stored snapshot is at all times the puzzle as generation
\* left it.
C8_ResetRestores ==
    /\ [](initialPuzzleState = Some(generated))
    /\ [][Calls("resetGame")
          => /\ gameState' = "ready"
             /\ moveHistory' = <<>>
             /\ currentMoveIndex' = -1
             /\ timer' = [startTime |-> None, elapsedTime |-> 0,
                          isRunning |-> FALSE]
             /\ Puzzle(gridSystem') = generated
             /\ initialPuzzleState' = initialPuzzleState]_vars

\* C8 witness: resetGame was called after the clock had advanced over a
\* game with an applied move
C8_Witness ==
    /\ last.op = "resetGame"
    /\ last.before.currentMoveIndex >= 0
    /\ now > 0
    /\ gameState = "ready"
    /\ Puzzle(gridSystem) = generated

\* C9: the puzzle a generation leaves (immutable positions, cell values,
\* ordered constraints) is the one a fresh controller generates from the
\* same size, difficulty and seed, whatever the controller generated or
\* played before.
C9_Deterministic ==
    generated = Puzzle(GameManager(gridSystem.size, difficulty,
                                   seed).obj.gridSystem)

\* C9 witness: a second generation on a controller that has been played,
\* whose generator state differs from the hash of the seed
C9_Witness ==
    /\ last.op = "newGame"
    /\ last.before.historyLength > 0
    /\ gridSystem.size = MaxSize
    /\ seedValue # Abs32(HashSeed(seed))
    /\ Puzzle(gridSystem) = generated

\* the cells generation marked immutable
ImmutableCells(puzzle) ==
    {pos \in DOMAIN puzzle.grid : puzzle.grid[pos].immutable}

\* the cells of the generated puzzle: min(prefilledCount, size * size) of
\* them immutable with a symbol, every other one empty and mutable
PrefilledAsCounted ==
    /\ Cardinality(ImmutableCells(generated))
          = Min(PrefilledCount(gridSystem.size, difficulty),
                gridSystem.size * gridSystem.size)
    /\ \A pos \in DOMAIN generated.grid :
          IF generated.grid[pos].immutable
          THEN generated.grid[pos].value \in Symbols
          ELSE generated.grid[pos].value = Null

\* size 4, difficulty medium, seed "TEST1234": 4 immutable cells and 2
\* stored constraints
Test1234Example ==
    (gridSystem.size = 4 /\ difficulty = "medium" /\ seed = SeedTEST1234)
    => /\ Cardinality(ImmutableCells(generated)) = 4
       /\ Len(generated.constraints) = 2

\* C10 as stated: generation adds exactly floor(0.7 * size) constraints.
C10_ExactlyConstraintCount ==
    /\ PrefilledAsCounted
    /\ Len(generated.constraints) = ConstraintCount(gridSystem.size)
    /\ Test1234Example

\* C10, amended: generation marks exactly min(prefilledCount, size * size)
\* distinct cells immutable, each with a symbol, leaves every other cell
\* empty and mutable, and stores at most floor(0.7 * size) constraints; for
\* size 4, medium, "TEST1234" that is 4 immutable cells and 2 constraints.
C10_AtMostConstraintCount ==
    /\ PrefilledAsCounted
    /\ Len(generated.constraints) <= ConstraintCount(gridSystem.size)
    /\ Test1234Example

\* C10 witness: newGame has generated a puzzle with immutable cells that
\* stores fewer constraints than floor(0.7 * size)
C10_Witness ==
    /\ last.op = "newGame"
    /\ Len(generated.constraints) < ConstraintCount(gridSystem.size)
    /\ Cardinality(ImmutableCells(generated)) > 0
    /\ Puzzle(gridSystem) = generated

\* C11: for a difficulty that is none of easy, medium and hard, generation
\* marks floor(0.25 * size * size) cells immutable, as it does for medium.
C11_UnknownAsMedium ==
    difficulty \notin {"easy", "medium", "hard"}
    => Cardinality(ImmutableCells(generated))
          = Min((gridSystem.size * gridSystem.size) \div 4,
                gridSystem.size * gridSystem.size)

\* the elements of a sequence
Range(seq) == {seq[i] : i \in 1..Len(seq)}

\* the maximal runs <<a, b>> of one symbol in a line
Runs(line, size) ==
    {run \in (0..(size - 1)) \X (0..(size - 1)) :
        /\ run[1] <= run[2]
        /\ line[run[1]] # Null
        /\ \A k \in run[1]..run[2] : line[k] = line[run[1]]
        /\ run[1] = 0 \/ line[run[1] - 1] # line[run[1]]
        /\ run[2] = size - 1 \/ line[run[2] + 1] # line[run[1]]}

\* one violation for each index at or beyond the third cell of a run
ExpectedAdjacent(gs) ==
    LET windows(line) ==
            UNION {(run[1] + 2)..run[2] : run \in Runs(line, gs.size)}
    IN  UNION {{[type |-> "adjacent", direction |-> "horizontal", row |-> n,
                 startCol |-> i - 2, endCol |-> i,
                 value |-> RowLine(gs, n)[i]] :
                    i \in windows(RowLine(gs, n))} :
               n \in 0..(gs.size - 1)}
        \cup
        UNION {{[type |-> "adjacent", direction |-> "vertical", col |-> n,
                 startRow |-> i - 2, endRow |-> i,
                 value |-> ColLine(gs, n)[i]] :
                    i \in windows(ColLine(gs, n))} :
               n \in 0..(gs.size - 1)}

\* a symbol occurs three times in a row in the line
ThreeInARow(line, size) ==
    \E k \in 0..(size - 3) :
        line[k] # Null /\ line[k + 1] = line[k] /\ line[k + 2] = line[k]

\* C12: validateAdjacentLimits reports, for each maximal run of L equal
\* symbols in a row or column, max(0, L - 2) violations, one for each index
\* i at or beyond the third cell of the run with the window [i - 2, i], and
\* nothing else; a line has no violation exactly when no symbol occurs three
\* times in a row in it; empty cells form no run.
C12_AdjacentRuns ==
    last.op = "validateAll"
    => LET errors == last.ret.adjacentErrors
           size == gridSystem.size
       IN  /\ Range(errors) = ExpectedAdjacent(gridSystem)
           /\ Len(errors) = Cardinality(ExpectedAdjacent(gridSystem))
           /\ \A e \in Range(errors) : e.value # Null
           /\ \A n \in 0..(size - 1) :
                /\ ThreeInARow(RowLine(gridSystem, n), size)
                   <=> \E e \in Range(errors) :
                          e.direction = "horizontal" /\ e.row = n
                /\ ThreeInARow(ColLine(gridSystem, n), size)
                   <=> \E e \in Range(errors) :
                          e.direction = "vertical" /\ e.col = n

\* C12 witness: a column of four equal symbols was reported twice, on a grid
\* with empty cells
C12_Witness ==
    /\ last.op = "validateAll"
    /\ gridSystem.size = 4
    /\ \E e1, e2 \in Range(last.ret.adjacentErrors) :
          /\ e1.direction = "vertical" /\ e2.direction = "vertical"
          /\ e1.col = e2.col
          /\ e1.startRow = 0 /\ e2.startRow = 1
    /\ \E pos \in DOMAIN gridSystem.grid : gridSystem.grid[pos].value = Null

\* ceil(size / 2)
Cap(size) == CHOOSE n \in 0..size : 2 * n >= size /\ 2 * (n - 1) < size

\* C13: for every row and column, validateBalance emits as many records
\* for the line as there are symbols whose count in the line exceeds
\* ceil(size / 2), and every record is that of a row or a column.
C13_BalanceRecords ==
    last.op = "validateAll"
    => LET errors == last.ret.balanceErrors
           size == gridSystem.size
           records(direction, n) ==
               {i \in 1..Len(errors) :
                   errors[i].direction = direction /\ errors[i].index = n}
           exceeded(line) ==
               {v \in Symbols : CountIn(line, v) > Cap(size)}
       IN  /\ \A i \in 1..Len(errors) :
                /\ errors[i].direction \in {"row", "column"}
                /\ errors[i].index \in 0..(size - 1)
           /\ \A n \in 0..(size - 1) :
                /\ Cardinality(records("row", n))
                      = Cardinality(exceeded(RowLine(gridSystem, n)))
                /\ Cardinality(records("column", n))
                      = Cardinality(exceeded(ColLine(gridSystem, n)))

\* C13 witness: on a 3x3 grid a column of three moons was reported, and a
\* row of two oranges was not
C13_Witness ==
    /\ last.op = "validateAll"
    /\ gridSystem.size = 3
    /\ \E e \in Range(last.ret.balanceErrors) :
          e.direction = "column" /\ e.moonCount = 3
    /\ \E n \in 0..2 :
          /\ CountIn(RowLine(gridSystem, n), "orange") = 2
          /\ \A e \in Range(last.ret.balanceErrors) :
                ~(e.direction = "row" /\ e.index = n)

\* the constraint has symbols at both ends and they break its kind
Broken(gs, constraint) ==
    LET value1 == gs.grid[<<constraint.cell1.row, constraint.cell1.col>>].value
        value2 == gs.grid[<<constraint.cell2.row, constraint.cell2.col>>].value
    IN  /\ value1 # Null
        /\ value2 # Null
        /\ \/ constraint.type = "equal" /\ value1 # value2
           \/ constraint.type = "notequal" /\ value1 = value2

\* C14: validateConstraints reports exactly the stored constraints that
\* have symbols at both ends and are broken by them (Equal with different
\* values, NotEqual with equal values), never one with an empty end, in the
\* insertion order of the constraints.
C14_ConstraintReports ==
    last.op = "validateAll"
    => LET errors == last.ret.constraintErrors
           broken(constraint) == Broken(gridSystem, constraint)
           expected == SelectSeq(getConstraints(gridSystem), broken)
       IN  /\ Len(errors) = Len(expected)
           /\ \A i \in 1..Len(errors) :
                /\ errors[i].cell1 = expected[i].cell1
                /\ errors[i].cell2 = expected[i].cell2
                /\ errors[i].constraintType = expected[i].type
                /\ errors[i].value1 # Null
                /\ errors[i].value2 # Null

\* C14 witness: of three stored constraints the first has an empty end and
\* the other two are reported in their order
C14_Witness ==
    /\ last.op = "validateAll"
    /\ Len(getConstraints(gridSystem)) = 3
    /\ ~Broken(gridSystem, getConstraints(gridSystem)[1])
    /\ \E pos \in DOMAIN gridSystem.grid : gridSystem.grid[pos].value = Null
    /\ Len(last.ret.constraintErrors) = 2
    /\ last.ret.constraintErrors[1].cell1 = getConstraints(gridSystem)[2].cell1
    /\ last.ret.constraintErrors[1].cell2 = getConstraints(gridSystem)[2].cell2

\* C15: getElapsedTime is at all times the time the clock has advanced in
\* Playing since the last resetGame or newGame; it stays as it is while the
\* clock advances in Paused or Completed, and a startGame from Paused
\* leaves it at the value the pause froze.
C15_ElapsedIsPlayedTime ==
    /\ [](getElapsedTime(self, now) = playedTime)
    /\ [][/\ (now' # now /\ gameState \in {"paused", "completed"})
             => getElapsedTime(self', now') = getElapsedTime(self, now)
          /\ (Calls("startGame") /\ gameState = "paused")
             => getElapsedTime(self', now') = timer.elapsedTime]_vars

\* C15 witness: a game played for one instant, paused for one and resumed
\* for one more shows two instants of elapsed time
C15_Witness ==
    /\ gameState = "playing"
    /\ last.op = "startGame"
    /\ last.ret.value
    /\ now = 3
    /\ playedTime = 2
    /\ getElapsedTime(self, now) = 2

\* C16: deserialize of a saved object, after any makeMove, undo and redo
\* calls since serialize returned it, leaves the cell values, the
\* constraints, gameState, moveHistory and currentMoveIndex as they were
\* when it was taken.
C16_SnapshotRestores ==
    last.op = "deserialize"
    => LET taken == saved[1].taken
       IN  /\ \A pos \in DOMAIN taken.gridSystem.grid :
                 gridSystem.grid[pos].value = taken.gridSystem.grid[pos].value
           /\ getConstraints(gridSystem) = getConstraints(taken.gridSystem)
           /\ gameState = taken.gameState
           /\ moveHistory = taken.moveHistory
           /\ currentMoveIndex = taken.currentMoveIndex

\* the constraints, by their place in insertion order, that have the cell as
\* an endpoint and a filled cell as the other endpoint
HintSources(gs, row, col) ==
    {i \in 1..Len(getConstraints(gs)) :
        LET c == getConstraints(gs)[i]
            cell == [row |-> row, col |-> col]
        IN  \/ c.cell1 = cell /\ gs.grid[<<c.cell2.row, c.cell2.col>>].value # Null
            \/ c.cell2 = cell /\ gs.grid[<<c.cell1.row, c.cell1.col>>].value # Null}

\* the value the i-th constraint asks of the cell
Suggested(gs, i, row, col) ==
    LET c == getConstraints(gs)[i]
        other == IF c.cell1 = [row |-> row, col |-> col] THEN c.cell2 ELSE c.cell1
        otherValue == gs.grid[<<other.row, other.col>>].value
    IN  IF c.type = "equal" THEN otherValue
        ELSE CHOOSE v \in Symbols : v # otherValue

\* the cells, numbered in row-major order, a hint can be given for
HintCandidates(gs) ==
    {k \in 0..(gs.size * gs.size - 1) :
        LET row == k \div gs.size
            col == k % gs.size
        IN  /\ gs.grid[<<row, col>>].value = Null
            /\ ~gs.grid[<<row, col>>].immutable
            /\ HintSources(gs, row, col) # {}}

\* C17: getHint succeeds only in Playing; in Playing it returns the first
\* cell in row-major order that is empty, not immutable and an endpoint of a
\* constraint whose other endpoint is filled, with the value the first such
\* constraint in insertion order asks for (Equal: the other endpoint's
\* value, NotEqual: the other symbol), and fails with "No obvious hints
\* available" exactly when there is no such cell; it never changes the
\* grid, the history or gameState.
C17_Hint ==
    [][Calls("getHint")
       => /\ gridSystem' = gridSystem
          /\ moveHistory' = moveHistory
          /\ currentMoveIndex' = currentMoveIndex
          /\ gameState' = gameState
          /\ last'.ret.success => gameState = "playing"
          /\ gameState # "playing" => last'.ret.reason = "Game not active"
          /\ (gameState = "playing" /\ HintCandidates(gridSystem) = {})
             => last'.ret = [success |-> FALSE,
                             reason |-> "No obvious hints available"]
          /\ (gameState = "playing" /\ HintCandidates(gridSystem) # {})
             => LET k == CHOOSE c \in HintCandidates(gridSystem) :
                            \A d \in HintCandidates(gridSystem) : c <= d
                    row == k \div gridSystem.size
                    col == k % gridSystem.size
                    i == CHOOSE a \in HintSources(gridSystem, row, col) :
                            \A b \in HintSources(gridSystem, row, col) : a <= b
                IN  /\ last'.ret.success
                    /\ last'.ret.row = row
                    /\ last'.ret.col = col
                    /\ last'.ret.suggestedValue = Suggested(gridSystem, i, row, col)]_vars

\* a hint for a cell, not the first of the grid, that two constraints ask
\* different values of, the first of them in insertion order an Equal
\* constraint
C17_Witness ==
    /\ last.op = "getHint"
    /\ last.ret.success
    /\ last.ret.row * gridSystem.size + last.ret.col > 0
    /\ \E i, j \in HintSources(gridSystem, last.ret.row, last.ret.col) :
          /\ i < j
          /\ \A b \in HintSources(gridSystem, last.ret.row, last.ret.col) : i <= b
          /\ getConstraints(gridSystem)[i].type = "equal"
          /\ Suggested(gridSystem, i, last.ret.row, last.ret.col)
             # Suggested(gridSystem, j, last.ret.row, last.ret.col)

\* C18: generation completes for every seed string, the empty string
\* included: after newGame no TypeError was raised, seedRandom of the seed
\* is a generator, the generator's state gives a value in [0,1), and the
\* InitialPuzzleState stored is that of the grid generated.
C18_EverySeedGenerates ==
    last.op = "newGame"
    => /\ ~last.ret.threw
       /\ seedRandom(self, seed).callable
       /\ InUnitInterval(seedValue)
       /\ initialPuzzleState # None
       /\ initialPuzzleState[1].grid = gridSystem.grid

\* the records up to the cursor, by their place in the history, that
\* target the cell
RecordsAt(pos) ==
    {i \in 1..(currentMoveIndex + 1) :
        moveHistory[i].row = pos[1] /\ moveHistory[i].col = pos[2]}

\* C19: the cursor is between -1 and the last index of moveHistory, and
\* each cell holds the newValue of the last record up to the cursor that
\* targets it, or its value in the InitialPuzzleState if there is none.
C19_GridIsHistoryApplied ==
    /\ -1 <= currentMoveIndex
    /\ currentMoveIndex <= Len(moveHistory) - 1
    /\ \A pos \in DOMAIN gridSystem.grid :
          gridSystem.grid[pos].value
             = IF RecordsAt(pos) = {}
               THEN initialPuzzleState[1].grid[pos].value
               ELSE moveHistory[CHOOSE i \in RecordsAt(pos) :
                                   \A j \in RecordsAt(pos) : j <= i].newValue

\* two moves have written different values to one cell and the second has
\* been undone
C19_Witness ==
    /\ last.op = "undo"
    /\ last.ret.success
    /\ Len(moveHistory) = 2
    /\ currentMoveIndex = 0
    /\ moveHistory[1].row = moveHistory[2].row
    /\ moveHistory[1].col = moveHistory[2].col
    /\ moveHistory[1].newValue # Null
    /\ moveHistory[2].newValue # moveHistory[1].newValue
    /\ gridSystem.grid[<<moveHistory[1].row, moveHistory[1].col>>].value
          = moveHistory[1].newValue

\* C20: whenever gameState is Completed every cell of the grid is non-empty
\* and the validator reports no violation (isGameCompleted() is true).
C20_CompletedIsSolved ==
    gameState = "completed"
    => /\ Full(gridSystem)
       /\ Clean(gridSystem)
       /\ isGameCompleted(self)

\* C21: the timer is running exactly when gameState is Playing, and in
\* Ready its startTime is null and its elapsedTime is 0.
C21_TimerFollowsState ==
    /\ timer.isRunning <=> gameState = "playing"
    /\ gameState = "ready"
       => (timer.startTime = None /\ timer.elapsedTime = 0)

\* a game completed after time was played: the timer is stopped with the
\* time it counted
C21_Witness ==
    /\ gameState = "completed"
    /\ last.op = "makeMove"
    /\ ~timer.isRunning
    /\ timer.startTime # None
    /\ timer.elapsedTime > 0

\* C22: resetGame called after deserialize of an object saved while another
\* generated puzzle was played leaves each immutable cell of the
\* deserialized grid with its value and flag, every other cell empty, and
\* the deserialized constraints in place.
C22_ResetAfterDeserialize ==
    [][(/\ Calls("resetGame")
        /\ last.op = "deserialize"
        /\ saved[1].taken.initialPuzzleState # initialPuzzleState)
       => /\ \A pos \in DOMAIN gridSystem.grid :
                gridSystem'.grid[pos]
                   = IF gridSystem.grid[pos].immutable
                     THEN gridSystem.grid[pos]
                     ELSE [value |-> Null, immutable |-> FALSE]
          /\ getConstraints(gridSystem') = getConstraints(gridSystem)]_vars

\* C23: makeMove in Ready starts the game before it attempts the write: on
\* an immutable or out-of-bounds target it returns "Invalid move" and leaves
\* gameState Playing with the timer running, the grid and the history as
\* they were; in every other state a makeMove that fails leaves gameState
\* and the timer unchanged.
C23_AutoStartBeforeWrite ==
    [][Calls("makeMove")
       => /\ (gameState = "ready" /\ last'.target # "mutable")
             => /\ last'.ret = [success |-> FALSE, reason |-> "Invalid move"]
                /\ gameState' = "playing"
                /\ transitions' = <<"playing">>
                /\ timer'.isRunning
                /\ timer'.startTime = Some(now - timer.elapsedTime)
                /\ gridSystem' = gridSystem
                /\ moveHistory' = moveHistory
          /\ (gameState # "ready" /\ ~last'.ret.success)
             => /\ gameState' = gameState
                /\ transitions' = <<>>
                /\ timer' = timer]_vars

\* a move on an immutable cell has just started the game and failed
C23_Witness ==
    /\ last.op = "makeMove"
    /\ last.target = "immutable"
    /\ last.ret = [success |-> FALSE, reason |-> "Invalid move"]
    /\ transitions = <<"playing">>
    /\ gameState = "playing"
    /\ timer.isRunning
    /\ moveHistory = <<>>

=============================================================================
